---- MODULE Spec2Model ----
(***************************************************************************)
(* Loan-Prepayment-Simulator: the amortization schedule computed by        *)
(* LoanCalculator's scheduleData (src/src/App.js).                         *)
(*                                                                         *)
(* App.js holds four revisions of LoanCalculator.  Their scheduleData      *)
(* differ only in how the entered EMI and recurring prepayment are turned  *)
(* into per-period amounts and in the "EMI too low" test:                  *)
(*   revision 1  lines   76-446  (the engine of lines 526-931 is the same) *)
(*   revision 3  lines  956-1330                                           *)
(*   revision 4  lines 1357-1767                                           *)
(*                                                                         *)
(* Numbers.  A JavaScript number is a binary floating-point value: every   *)
(* arithmetic result is rounded to the nearest value that has a fixed      *)
(* number of significant bits (ties to even).  The model keeps that and    *)
(* shrinks the format: an amount is an integer count of units of           *)
(* 10^-FracDigits, and a result is rounded to MantBits significant bits.   *)
(* Below 2^MantBits units every integer is representable, so small amounts *)
(* are computed exactly; above it the spacing doubles with each power of   *)
(* two, as it does for a double.  A run whose amounts a double holds       *)
(* exactly (the documented scenario) is given ScenarioBits instead.        *)
(***************************************************************************)
EXTENDS Integers, Sequences, FiniteSets, TLC

VARIABLES
    ver,            \* which revision of LoanCalculator runs
    limit,          \* 2^(significant bits) of the number format of this run
    remaining, oneTime, emi, annualRate, prepayment, freq,   \* the inputs
    pc,             \* "start", "loop", "done": position in scheduleData
    balance, period, cumInterest, data,                      \* its locals
    paymentBase, prepaymentPerPeriod,
    warned,         \* whether the "EMI is too low" condition was raised
    prevBalance,    \* balance at the start of the last iteration
    lastInterest, lastPayment,  \* interest and payment of the last iteration
    covered,        \* every iteration so far: paymentBase + prepaymentPerPeriod
                    \* exceeded that iteration's interest
    emiCalc,        \* the last call of calculateEmi: arguments and value
    kept,           \* a schedule returned earlier, the inputs it was computed
                    \* from, and whether another schedule was computed since
                    \* (<<>>: none kept)
    csv,            \* the text of the last export (<<>>: nothing exported)
    tenure,         \* rev 3: the position of the tenure slider, in years
    handled,        \* the last call of handleNumericInput: its arguments, the
                    \* field's value before it, and what it passed to the setter
    darkMode,       \* the value of useLocalStorage('darkMode', false)
    entry,          \* the localStorage entry 'darkMode': <<>> when there is
                    \* none, else <<its text>>
    prefersDark,    \* matchMedia('(prefers-color-scheme: dark)').matches
    listening,      \* a change listener is registered on the media query
    load,           \* where the page is after a load: "persist" (rendered, the
                    \* effects not yet run), "detect" (the persistence effect
                    \* ran), "idle" (all effects ran), "crashed"
    failing,        \* which localStorage calls throw: "none", "write", "all"
    sync,           \* the persistence effect for the current darkMode:
                    \* "pending", "written" or "failed"
    firstLoad       \* there was no entry when the page was loaded

vars == <<ver, limit, remaining, oneTime, emi, annualRate, prepayment, freq, pc,
          balance, period, cumInterest, data, paymentBase,
          prepaymentPerPeriod, warned, prevBalance, lastInterest, lastPayment,
          covered, emiCalc, kept, csv, tenure, handled, darkMode, entry,
          prefersDark, listening, load, failing, sync, firstLoad>>

inputs == <<ver, limit, remaining, oneTime, emi, annualRate, prepayment, freq>>

\* what scheduleData neither reads nor writes
\* the dark mode and its persistence
theme ==
    <<darkMode, entry, prefersDark, listening, load, failing, sync, firstLoad>>

aside == <<emiCalc, kept, csv, tenure, handled, theme>>

\* what the page holds besides the form and the schedule
page == <<csv, tenure, handled, theme>>

----------------------------------------------------------------------------
(* The number format *)

MantBits == 12
ScenarioBits == 29
FracDigits == 3
Decimals == 2

RECURSIVE Pow(_, _)
Pow(b, n) == IF n = 0 THEN 1 ELSE b * Pow(b, n - 1)

\* units in 0.01, the step of toFixed(2)
Cent == Pow(10, FracDigits - Decimals)

Abs(x) == IF x < 0 THEN 0 - x ELSE x
Sign(x) == IF x < 0 THEN 0 - 1 ELSE 1
Max(a, b) == IF a >= b THEN a ELSE b
Min(a, b) == IF a <= b THEN a ELSE b

\* n currency units, in units of 10^-FracDigits
Amount(n) == n * Pow(10, FracDigits)

\* the first magnitude that no longer has a spacing of one unit
Limit == limit

\* the spacing of the representable values around magnitude m

RECURSIVE SpacingFrom(_, _)
SpacingFrom(m, s) ==
    IF m < s * Limit THEN s ELSE SpacingFrom(m, 2 * s)
Spacing(m) == SpacingFrom(m, 1)

\* Round the magnitude (h + e)/2 units, 0 <= e < 1 and e > 0 iff sticky,
\* to the nearest representable value; a tie goes to the even significand.
RoundHalf(h, sticky) ==
    LET s == Spacing(h \div 2)
        m == h \div (2 * s)
        r == h % (2 * s)
        up == \/ r > s
              \/ r = s /\ sticky
              \/ r = s /\ ~sticky /\ m % 2 = 1
    IN  (IF up THEN m + 1 ELSE m) * s

\* the representable value nearest to the integer x
Fl(x) == Sign(x) * RoundHalf(2 * Abs(x), FALSE)

\* the representable value nearest to a * num / den  (den > 0)
FlMulDiv(a, num, den) ==
    LET q == Abs(a) \div den
        r == Abs(a) % den
        t == 2 * r * Abs(num)
    IN  Sign(a) * Sign(num)
          * RoundHalf(2 * q * Abs(num) + t \div den, t % den # 0)

FAdd(a, b) == Fl(a + b)
FSub(a, b) == Fl(a - b)

\* +x.toFixed(2): x rounded to 2 decimals (half away from zero), read back
ToFixed2(x) ==
    Sign(x) * Fl(((2 * Abs(x) + Cent) \div (2 * Cent)) * Cent)

----------------------------------------------------------------------------
(* The inputs *)

Revisions == {1, 3, 4}
Frequencies == {"weekly", "biweekly", "monthly", "6-months", "yearly"}

freqMap == [f \in Frequencies |->
              CASE f = "weekly" -> 52
                [] f = "biweekly" -> 26
                [] f = "monthly" -> 12
                [] f = "6-months" -> 2
                [] f = "yearly" -> 1]

RemainingValues == {4090, 250000}
OneTimeValues == {0, 4090, 300000}
EmiValues == {10, 2000}
PrepaymentValues == {0, 2000}
RateValues == {0, 1, 12}

\* the per-period rate is kept at or below 1 percent, so that a balance
\* growing for periodCap periods stays within the number format
MaxPeriodRate == 1
RateFits(rate, f) == Abs(rate) <= MaxPeriodRate * freqMap[f]

\* loans that a small payment, 10 a month, leaves unpaid or barely paid at
\* the cutoff
CutoffRemainingValues == {5000, 5004, 5006, 5200}
CutoffEmi == 10
CutoffRateValues == {0, 1}

\* inputs the form does not prevent: zero and negative amounts and rates
EdgeRemainingValues == {0 - 4090, 4090}
EdgeOneTimeValues == {0 - 4090, 0}
EdgeEmiValues == {0 - 2000, 0}
EdgeRateValues == {0 - 1, 0, 1}

----------------------------------------------------------------------------
(* scheduleData *)

periodCap == 500

periodsPerYear == freqMap[freq]

\* the annual rate applied to every period
RatePerPeriod_Annual(rate, ppy) == <<rate, 100>>

\* annualRate / 100 / periodsPerYear, kept as the fraction <<num, den>>
RatePerPeriod(rate, ppy) == <<rate, 100 * ppy>>

\* amount * r for a fraction r
Times(amount, r) == FlMulDiv(amount, r[1], r[2])

\* the clamp at zero left out
StartBalance_NoClamp(rem, one) == FSub(rem, one)

\* let balance = Math.max(0, remaining - oneTime)
StartBalance(rem, one) == Max(0, FSub(rem, one))

\* rev 1: emi * (periodsPerYear / 12);  rev 3, 4: emi * 12 / periodsPerYear
PaymentBase(v, e, ppy) ==
    IF v = 1 THEN FlMulDiv(e, ppy, 12)
             ELSE FlMulDiv(Fl(e * 12), 1, ppy)

\* rev 1, 3: the entered prepayment;  rev 4: prepayment * 12 / periodsPerYear
PrepaymentPerPeriod(v, p, ppy) ==
    IF v = 4 THEN FlMulDiv(Fl(p * 12), 1, ppy) ELSE p

\* rev 1: emi < balance * ratePerPeriod
\* rev 3: emiTooLow, emi < initialBalance * (annualRate / 100 / 12)
\* rev 4: paymentBase < balance * ratePerPeriod
EmiTooLow(v, e, b, rate, ppy) ==
    CASE v = 1 -> e < Times(b, RatePerPeriod(rate, ppy))
      [] v = 3 -> e < Times(b, RatePerPeriod(rate, 12))
      [] v = 4 -> PaymentBase(v, e, ppy) < Times(b, RatePerPeriod(rate, ppy))

\* the final-period clamp left out
Payment_NoClamp(pb, pp, b, i) == FAdd(pb, pp)

\* let payment = paymentBase + prepaymentPerPeriod;
\* if (payment > balance + interest) payment = balance + interest;
Payment(pb, pp, b, i) ==
    IF FAdd(pb, pp) > FAdd(b, i) THEN FAdd(b, i) ELSE FAdd(pb, pp)

\* the operands exchanged
PrincipalPaid_Swapped(pay, i) == FSub(i, pay)

\* const principalPaid = payment - interest
PrincipalPaid(pay, i) == FSub(pay, i)

\* the principal added instead of subtracted
NextBalance_Added(b, pp) == FAdd(b, pp)

\* the balance rounded to 2 decimals before it is carried to the next period
NextBalance_Rounded(b, pp) == ToFixed2(FSub(b, pp))

\* balance -= principalPaid
NextBalance(b, pp) == FSub(b, pp)

\* a balance of zero still enters the loop
LoopCondition_NonNegative(b, p) == b >= 0 /\ p < periodCap

\* the cutoff tested one period late
LoopCondition_OffByOne(b, p) == b > 0 /\ p <= periodCap

\* while (balance > 0 && period < periodCap)
LoopCondition(b, p) == b > 0 /\ p < periodCap

\* periods counted from zero
Record_ZeroBased(p, i, c, b) ==
    [period |-> p - 1, interest |-> ToFixed2(i), cumInterest |-> ToFixed2(c),
     balance |-> ToFixed2(Max(0, b))]

\* the balance cut to whole cents instead of rounded
Record_Truncated(p, i, c, b) ==
    [period |-> p, interest |-> ToFixed2(i), cumInterest |-> ToFixed2(c),
     balance |-> (Max(0, b) \div Cent) * Cent]

\* the record pushed before balance -= principalPaid
Record_StaleBalance(p, i, c, b) ==
    [period |-> p, interest |-> ToFixed2(i), cumInterest |-> ToFixed2(c),
     balance |-> ToFixed2(Max(0, balance))]

\* the record pushed before cumInterest += interest
Record_StaleCum(p, i, c, b) ==
    [period |-> p, interest |-> ToFixed2(i), cumInterest |-> ToFixed2(FSub(c, i)),
     balance |-> ToFixed2(Max(0, b))]

\* data.push({ period, interest: +interest.toFixed(2),
\*   cumInterest: +cumInterest.toFixed(2),
\*   balance: +Math.max(0, balance).toFixed(2) })
Record(p, i, c, b) ==
    [period |-> p, interest |-> ToFixed2(i), cumInterest |-> ToFixed2(c),
     balance |-> ToFixed2(Max(0, b))]

\* the array the callback starts from, kept from the call before
InitialRecords_Carried == data

\* const data = []
InitialRecords == <<>>

\* handleNumericInput has not been called
NoInput ==
    [field |-> "none", text |-> <<>>, min |-> 0, max |-> {}, before |-> 0,
     kind |-> "none", value |-> 0]

\* calculateEmi has not been called
NoCall == [principal |-> 0, rate |-> 0, years |-> 0, value |-> 0]

\* the page after its effects ran, without a stored dark mode
ThemeIdle ==
    /\ darkMode = FALSE /\ entry = <<>> /\ prefersDark = FALSE
    /\ listening = FALSE /\ load = "idle" /\ failing = "none"
    /\ sync = "written" /\ firstLoad = TRUE

\* the locals before scheduleData has run
BeforeSchedule ==
    /\ pc = "start"
    /\ balance = 0 /\ period = 0 /\ cumInterest = 0 /\ data = <<>>
    /\ paymentBase = 0 /\ prepaymentPerPeriod = 0
    /\ warned = FALSE
    /\ prevBalance = 0 /\ lastInterest = 0 /\ lastPayment = 0
    /\ covered = TRUE
    /\ emiCalc = NoCall
    /\ kept = <<>>
    /\ csv = <<>>
    /\ tenure = 0
    /\ handled = NoInput

Fresh == BeforeSchedule /\ ThemeIdle

Init ==
    /\ ver \in Revisions
    /\ limit = Pow(2, MantBits)
    /\ freq \in Frequencies
    /\ remaining \in {Fl(x) : x \in RemainingValues}
    /\ oneTime \in {Fl(x) : x \in OneTimeValues}
    /\ emi \in {Fl(x) : x \in EmiValues}
    /\ prepayment \in {Fl(x) : x \in PrepaymentValues}
    /\ annualRate \in {r \in RateValues : RateFits(r, freq)}
    /\ Fresh

InitEdge ==
    /\ ver \in Revisions
    /\ limit = Pow(2, MantBits)
    /\ freq \in Frequencies
    /\ remaining \in {Fl(x) : x \in EdgeRemainingValues}
    /\ oneTime \in {Fl(x) : x \in EdgeOneTimeValues}
    /\ emi \in {Fl(x) : x \in EdgeEmiValues}
    /\ prepayment = 0
    /\ annualRate \in {r \in EdgeRateValues : RateFits(r, freq)}
    /\ Fresh

\* the documented scenario: 100000 remaining, no prepayments, 1000 a month
\* at 6 percent; and the same loan prepaid in full
InitScenario ==
    /\ ver \in Revisions
    /\ limit = Pow(2, ScenarioBits)
    /\ freq = "monthly"
    /\ remaining = Amount(100000)
    /\ oneTime \in {0, Amount(100000)}
    /\ emi = Amount(1000)
    /\ prepayment = 0
    /\ annualRate = 6
    /\ Fresh

\* small monthly payments on loans of about periodCap payments
InitCutoff ==
    /\ ver \in Revisions
    /\ limit = Pow(2, MantBits)
    /\ freq = "monthly"
    /\ remaining \in {Fl(x) : x \in CutoffRemainingValues}
    /\ oneTime = 0
    /\ emi = CutoffEmi
    /\ prepayment = 0
    /\ annualRate \in CutoffRateValues
    /\ Fresh

\* the statements before the loop
Setup ==
    /\ pc = "start"
    /\ balance' = StartBalance(remaining, oneTime)
    /\ period' = 0
    /\ cumInterest' = 0
    /\ data' = InitialRecords
    /\ paymentBase' = PaymentBase(ver, emi, periodsPerYear)
    /\ prepaymentPerPeriod' = PrepaymentPerPeriod(ver, prepayment, periodsPerYear)
    /\ warned' = EmiTooLow(ver, emi, balance', annualRate, periodsPerYear)
    /\ pc' = "loop"
    /\ prevBalance' = 0 /\ lastInterest' = 0 /\ lastPayment' = 0
    /\ covered' = TRUE
    /\ UNCHANGED <<inputs, aside>>

\* one pass of the while body; the break returns the data
Iterate ==
    /\ pc = "loop"
    /\ LoopCondition(balance, period)
    /\ LET interest == Times(balance, RatePerPeriod(annualRate, periodsPerYear))
           payment == Payment(paymentBase, prepaymentPerPeriod, balance, interest)
           principalPaid == PrincipalPaid(payment, interest)
       IN  /\ period' = period + 1
           /\ balance' = NextBalance(balance, principalPaid)
           /\ cumInterest' = FAdd(cumInterest, interest)
           /\ data' = Append(data, Record(period', interest, cumInterest', balance'))
           /\ prevBalance' = balance
           /\ lastInterest' = interest
           /\ lastPayment' = payment
           /\ covered' = (covered /\ FAdd(paymentBase, prepaymentPerPeriod) > interest)
           /\ pc' = IF balance' <= 0 THEN "done" ELSE "loop"
    /\ UNCHANGED <<inputs, aside, paymentBase, prepaymentPerPeriod, warned>>

\* the loop condition fails: return data
Return ==
    /\ pc = "loop"
    /\ ~LoopCondition(balance, period)
    /\ pc' = "done"
    /\ UNCHANGED <<inputs, aside, balance, period, cumInterest, data,
                   paymentBase, prepaymentPerPeriod, warned, prevBalance,
                   lastInterest, lastPayment, covered>>

Next == Setup \/ Iterate \/ Return

Spec == Init /\ [][Next]_vars

\* the same computation on the edge inputs
EdgeSpec == InitEdge /\ [][Next]_vars

\* the same computation on the loans near the cutoff
CutoffSpec == InitCutoff /\ [][Next]_vars

\* the same computation on the documented scenario
ScenarioSpec == InitScenario /\ [][Next]_vars

\* const payoffPeriods = scheduleData.length
payoffPeriods == Len(data)

\* scheduleData.reduce((sum, r) => sum + r.interest, 0).toFixed(2)
RECURSIVE SumInterest(_, _)
SumInterest(d, n) ==
    IF n = 0 THEN 0 ELSE FAdd(SumInterest(d, n - 1), d[n].interest)
totalInterest == ToFixed2(SumInterest(data, Len(data)))

----------------------------------------------------------------------------
(* calculateEmi (revision 3).  Amounts are whole cents, the rate is a whole  *)
(* percentage, and the growth factor (1 + monthlyRate)^n is held with        *)
(* FixBits fractional bits.                                                  *)

FixBits == 26
GuardBits == 4

\* 1.0 in the fixed-point format of the growth factor
One == Pow(2, FixBits)

\* the parts of a cent kept in an intermediate amount
Fine == Pow(2, GuardBits)

\* the digit size used to multiply and divide by c: the largest of 256, 16,
\* 4, 2 for which (2 * Radix - 1) * c stays within the integer range
Radix(c) ==
    IF c <= Pow(2, 22) THEN 256
    ELSE IF c <= Pow(2, 26) THEN 16
    ELSE IF c <= Pow(2, 28) THEN 4 ELSE 2

\* <<q, r>> with a * b = q * c + r and 0 <= r < c, computed digit by digit
\* (digits of size B) so that no intermediate value leaves the integer range
\* (a >= 0, 0 <= b < c)
RECURSIVE MulDivParts(_, _, _, _)
MulDivParts(a, b, c, B) ==
    IF a = 0 \/ b = 0 THEN <<0, 0>>
    ELSE LET h == MulDivParts(a \div B, b, c, B)
             t == B * h[2] + (a % B) * b
         IN  <<B * h[1] + t \div c, t % c>>

\* a * b / c rounded to the nearest integer  (a, b >= 0, c > 0)
MulDiv(a, b, c) ==
    LET p == MulDivParts(a, b % c, c, Radix(c))
    IN  a * (b \div c) + p[1] + (IF 2 * p[2] >= c THEN 1 ELSE 0)

\* years taken for months
MonthsOf_Years(years) == years

\* const n = years * 12
MonthsOf(years) == years * 12

\* Math.pow(1 + monthlyRate, n) with monthlyRate = rate / 100 / 12, by
\* repeated squaring
RECURSIVE Compound(_, _)
Compound(rate, n) ==
    IF n = 0 THEN One
    ELSE IF n % 2 = 0
         THEN LET h == Compound(rate, n \div 2) IN MulDiv(h, h, One)
         ELSE LET g == Compound(rate, n - 1) IN MulDiv(g, 1200 + rate, 1200)

\* +(x).toFixed(2) of an amount held in 1/Fine cents: whole cents
ToCents(x) == (2 * x + Fine) \div (2 * Fine)

\* P * monthlyRate, in 1/Fine cents
MonthlyInterest(principal, rate) == MulDiv(principal * rate, Fine, 1200)

calculateEmi(principal, rate, years) ==
    LET n == MonthsOf(years)
        factor == Compound(rate, n)
    IN  IF n = 0 THEN 0
        ELSE IF rate = 0 THEN (2 * principal + n) \div (2 * n)
        ELSE ToCents(MulDiv(MonthlyInterest(principal, rate), factor,
                            factor - One))

\* the arguments tried: principals in cents, rates in percent, terms in years
Principals == {100000, 250000, 1000000, 5000000, 25000000, 120000000}
Rates == {0, 3, 6, 9}
Years == {0, 1, 5, 10, 20}

\* the tenure slider's call of calculateEmi
CalculateEmi ==
    /\ \E P \in Principals, r \in Rates, y \in Years :
          emiCalc' = [principal |-> P, rate |-> r, years |-> y,
                      value |-> calculateEmi(P, r, y)]
    /\ UNCHANGED <<inputs, kept, page, pc, balance, period, cumInterest, data,
                   paymentBase, prepaymentPerPeriod, warned, prevBalance,
                   lastInterest, lastPayment, covered>>

\* revision 3 with the form as documented, calculateEmi not yet called
InitEmi == InitScenario /\ ver = 3

\* calculateEmi called on any of the arguments, in any order
EmiSpec == InitEmi /\ [][CalculateEmi]_vars

----------------------------------------------------------------------------
(* The form: the inputs are edited and the schedule is computed again *)

\* the values the hook's dependency list names
Input ==
    [remaining |-> remaining, oneTime |-> oneTime, emi |-> emi,
     annualRate |-> annualRate, prepayment |-> prepayment, freq |-> freq,
     periodsPerYear |-> periodsPerYear]

\* the recurring prepayment left out of the list
Dependencies_NoPrepayment(v) ==
    {"remaining", "oneTime", "emi", "annualRate", "freq"}

\* rev 1: [remaining, oneTime, emi, annualRate, prepayment, freq]
\* rev 3, 4: the same and periodsPerYear
Dependencies(v) ==
    {"remaining", "oneTime", "emi", "annualRate", "prepayment", "freq"}
        \cup (IF v = 1 THEN {} ELSE {"periodsPerYear"})

\* the loop of scheduleData run to its end on the locals given
RECURSIVE Loop(_, _, _, _, _, _)
Loop(b, p, c, d, pb, pp) ==
    IF ~LoopCondition(b, p) THEN d
    ELSE LET interest == Times(b, RatePerPeriod(annualRate, periodsPerYear))
             payment == Payment(pb, pp, b, interest)
             b2 == NextBalance(b, PrincipalPaid(payment, interest))
             c2 == FAdd(c, interest)
             d2 == Append(d, Record(p + 1, interest, c2, b2))
         IN  IF b2 <= 0 THEN d2 ELSE Loop(b2, p + 1, c2, d2, pb, pp)

\* the callback of scheduleData called on the current inputs
ScheduleData ==
    Loop(StartBalance(remaining, oneTime), 0, 0, InitialRecords,
         PaymentBase(ver, emi, periodsPerYear),
         PrepaymentPerPeriod(ver, prepayment, periodsPerYear))

\* the numbers typed into the fields, and the frequencies selected
RemainingTyped == {500, 2000}
OneTimeTyped == {0 - 800, 0, 800}
EmiTyped == {500, 900}
RateTyped == {0, 12}
PrepaymentTyped == {0, 300}
FrequenciesSelected == {"monthly", "biweekly"}

\* the stored form the page opens with
InitForm ==
    /\ ver \in Revisions
    /\ limit = Pow(2, MantBits)
    /\ freq = "monthly"
    /\ remaining = 500
    /\ oneTime = 0
    /\ emi = 900
    /\ prepayment = 0
    /\ annualRate = 12
    /\ Fresh

\* Math.max(min, Math.min(max, parsed))
Clamp(min, max, parsed) == Max(min, Min(max, parsed))

\* the render after a setter: useMemo calls the callback again when a
\* dependency differs from its value at the last render, and hands back the
\* array of the last call otherwise
Render ==
    LET changed == \E d \in Dependencies(ver) : Input'[d] # Input[d]
    IN  /\ pc' = IF changed THEN "start" ELSE pc
        /\ kept' = IF Len(kept) > 0 /\ changed /\ Input' # kept[1]
                   THEN <<kept[1], kept[2], TRUE>> ELSE kept
        /\ UNCHANGED <<ver, limit, emiCalc, csv, theme, balance, period, cumInterest, data,
                       paymentBase, prepaymentPerPeriod, warned, prevBalance,
                       lastInterest, lastPayment, covered>>

\* rev 1: setRemaining(+e.target.value)
\* rev 3, 4: handleNumericInput(e.target.value, setRemaining)
EditRemaining ==
    /\ pc = "done"
    /\ \E x \in RemainingTyped :
          remaining' = IF ver = 1 THEN Fl(x) ELSE Max(0, Fl(x))
    /\ UNCHANGED <<oneTime, emi, annualRate, prepayment, freq, tenure, handled>>
    /\ Render

\* rev 1: setOneTime(Math.min(+e.target.value, remaining))
\* rev 3, 4: handleNumericInput(e.target.value, setOneTime, 0, remaining)
EditOneTime ==
    /\ pc = "done"
    /\ \E x \in OneTimeTyped :
          oneTime' = IF ver = 1 THEN Min(Fl(x), remaining)
                                ELSE Clamp(0, remaining, Fl(x))
    /\ UNCHANGED <<remaining, emi, annualRate, prepayment, freq, tenure, handled>>
    /\ Render

\* rev 1: setEmi(+e.target.value)
\* rev 3, 4: handleNumericInput(e.target.value, setEmi)
EditEmi ==
    /\ pc = "done"
    /\ \E x \in EmiTyped : emi' = IF ver = 1 THEN Fl(x) ELSE Max(0, Fl(x))
    /\ UNCHANGED <<remaining, oneTime, annualRate, prepayment, freq, tenure, handled>>
    /\ Render

\* setAnnualRate(+e.target.value)
EditAnnualRate ==
    /\ pc = "done"
    /\ \E x \in RateTyped : annualRate' = x
    /\ UNCHANGED <<remaining, oneTime, emi, prepayment, freq, tenure, handled>>
    /\ Render

\* rev 1: setPrepayment(Math.max(0, Math.min(remaining, +e.target.value)))
\* rev 3, 4: handleNumericInput(e.target.value, setPrepayment, 0, remaining)
EditPrepayment ==
    /\ pc = "done"
    /\ \E x \in PrepaymentTyped : prepayment' = Clamp(0, remaining, Fl(x))
    /\ UNCHANGED <<remaining, oneTime, emi, annualRate, freq, tenure, handled>>
    /\ Render

\* setFreq(e.target.value)
EditFreq ==
    /\ pc = "done"
    /\ \E f \in FrequenciesSelected : freq' = f
    /\ UNCHANGED <<remaining, oneTime, emi, annualRate, prepayment, tenure, handled>>
    /\ Render

\* a consumer holds on to the array it was handed, once
Keep ==
    /\ pc = "done"
    /\ kept = <<>>
    /\ kept' = <<Input, data, FALSE>>
    /\ UNCHANGED <<inputs, emiCalc, page, pc, balance, period, cumInterest, data,
                   paymentBase, prepaymentPerPeriod, warned, prevBalance,
                   lastInterest, lastPayment, covered>>

Edit ==
    \/ EditRemaining \/ EditOneTime \/ EditEmi
    \/ EditAnnualRate \/ EditPrepayment \/ EditFreq

NextForm == Setup \/ Iterate \/ Return \/ Edit \/ Keep

\* the fields edited in any order, each edit followed by its render
FormSpec == InitForm /\ [][NextForm]_vars

\* loans whose last payment leaves a residue in the number format, and a
\* loan the one-time prepayment pays in full
PrepayRemainingValues == {500, 8976, 100000}
PrepayEmiValues == {9872, 20000}

InitPrepay ==
    /\ ver \in Revisions
    /\ limit = Pow(2, MantBits)
    /\ freq = "monthly"
    /\ remaining \in {Fl(x) : x \in PrepayRemainingValues}
    /\ oneTime = 0
    /\ emi \in {Fl(x) : x \in PrepayEmiValues}
    /\ prepayment = 0
    /\ annualRate = 12
    /\ Fresh

NextPrepay ==
    Setup \/ Iterate \/ Return \/ EditOneTime \/ EditPrepayment \/ Keep

\* only the two prepayment fields are edited
PrepaySpec == InitPrepay /\ [][NextPrepay]_vars

----------------------------------------------------------------------------
(* The tenure slider of rev 3 *)

\* the positions the slider is moved to
YearsMoved == {0, 1, 2, 3}

\* the EMI the slider stores: calculateEmi works on whole cents
SliderEmi(rem, one, rate, yrs) ==
    LET principal == Max(0, FSub(rem, one))
    IN  Fl(calculateEmi(principal \div Cent, rate, yrs) * Cent)

\* const yrs = parseInt(e.target.value, 10); setTenure(yrs);
\* const principal = Math.max(0, parseFloat(remaining) - parseFloat(oneTime));
\* setEmi(calculateEmi(principal, annualRate, yrs))
TenureSlider ==
    /\ pc = "done"
    /\ ver = 3
    /\ \E yrs \in YearsMoved :
          /\ tenure' = yrs
          /\ emi' = SliderEmi(remaining, oneTime, annualRate, yrs)
    /\ UNCHANGED <<remaining, oneTime, annualRate, prepayment, freq, handled>>
    /\ Render

\* small loans, and loans whose balance is rounded by the number format
TenureRemainingValues == {1, 2, 8, 50}
TenureRateValues == {0, 3, 9}

InitTenure ==
    /\ ver = 3
    /\ limit = Pow(2, MantBits)
    /\ freq = "monthly"
    /\ remaining \in {Fl(Amount(n)) : n \in TenureRemainingValues}
    /\ oneTime \in {0, remaining}
    /\ emi = Fl(Amount(1))
    /\ prepayment = 0
    /\ annualRate \in TenureRateValues
    /\ Fresh

NextTenure == Setup \/ Iterate \/ Return \/ TenureSlider

TenureSpec == InitTenure /\ [][NextTenure]_vars

----------------------------------------------------------------------------
(* The minus and plus buttons of the recurring prepayment *)

\* the amount a click moves the prepayment by
PrepaymentStep == Amount(2000)

\* the floor at zero left out
MinusClick_NoFloor(p) == FSub(p, PrepaymentStep)

\* p => Math.max(0, p - 2000)
MinusClick(p) == Max(0, FSub(p, PrepaymentStep))

\* p => Math.min(remaining, p + 2000)
PlusClick(p, rem) == Min(rem, FAdd(p, PrepaymentStep))

PrepaymentMinus ==
    /\ pc = "done"
    /\ prepayment' = MinusClick(prepayment)
    /\ UNCHANGED <<remaining, oneTime, emi, annualRate, freq, tenure, handled>>
    /\ Render

PrepaymentPlus ==
    /\ pc = "done"
    /\ prepayment' = PlusClick(prepayment, remaining)
    /\ UNCHANGED <<remaining, oneTime, emi, annualRate, freq, tenure, handled>>
    /\ Render

\* loans of a few clicks, and a loan prepaid in full
StepperRemainingValues == {3000, 5000}

InitStepper ==
    /\ ver \in Revisions
    /\ limit = Pow(2, ScenarioBits)
    /\ freq = "monthly"
    /\ remaining \in {Amount(n) : n \in StepperRemainingValues}
    /\ oneTime \in {0, remaining}
    /\ emi = Amount(1000)
    /\ prepayment = 0
    /\ annualRate = 12
    /\ Fresh

NextStepper ==
    Setup \/ Iterate \/ Return \/ PrepaymentMinus \/ PrepaymentPlus
      \/ EditPrepayment

\* only the recurring-prepayment control is used
StepperSpec == InitStepper /\ [][NextStepper]_vars

----------------------------------------------------------------------------
(* exportCSV *)

\* A text is a sequence of tokens: a character each, except the words of
\* the header, which are one token each.

Digit(d) == <<"0", "1", "2", "3", "4", "5", "6", "7", "8", "9">>[d + 1]

\* the decimal digits of the natural number n
RECURSIVE NatText(_)
NatText(n) ==
    IF n < 10 THEN <<Digit(n)>> ELSE Append(NatText(n \div 10), Digit(n % 10))

\* the digits of the fraction f / 10^w, without the zeros at its end
RECURSIVE FracText(_, _)
FracText(f, w) ==
    IF f = 0 THEN <<>>
    ELSE <<Digit(f \div Pow(10, w - 1))>> \o FracText(f % Pow(10, w - 1), w - 1)

\* String(x) of the amount x: sign, whole part and, when there is one, a
\* point and the fraction
NumberText(x) ==
    LET whole == Abs(x) \div Amount(1)
        frac == Abs(x) % Amount(1)
    IN  (IF x < 0 THEN <<"-">> ELSE <<>>)
          \o NatText(whole)
          \o (IF frac = 0 THEN <<>> ELSE <<".">> \o FracText(frac, FracDigits))

\* parts.join(sep)
RECURSIVE Join(_, _)
Join(parts, sep) ==
    IF Len(parts) = 0 THEN <<>>
    ELSE IF Len(parts) = 1 THEN parts[1]
    ELSE parts[1] \o <<sep>> \o Join(Tail(parts), sep)

\* const header = ['Period', 'Interest', 'CumulativeInterest', 'Balance']
header == <<<<"Period">>, <<"Interest">>, <<"CumulativeInterest">>, <<"Balance">>>>

\* the interest and cumInterest columns exchanged
Row_Exchanged(r) ==
    <<NatText(r.period), NumberText(r.cumInterest), NumberText(r.interest),
      NumberText(r.balance)>>

\* [r.period, r.interest, r.cumInterest, r.balance], as join converts them
Row(r) ==
    <<NatText(r.period), NumberText(r.interest), NumberText(r.cumInterest),
      NumberText(r.balance)>>

\* const rows = scheduleData.map(...)
rows == [k \in 1..Len(data) |-> Row(data[k])]

\* [header, ...rows].map(r => r.join(',')).join('\n')
CsvText ==
    LET lines == <<header>> \o rows
    IN  Join([k \in 1..Len(lines) |-> Join(lines[k], ",")], "\n")

\* the Export CSV button; the page shows a finished schedule
ExportCSV ==
    /\ pc = "done"
    /\ csv' = CsvText
    /\ UNCHANGED <<inputs, emiCalc, kept, tenure, handled, theme, pc, balance, period, cumInterest,
                   data, paymentBase, prepaymentPerPeriod, warned,
                   prevBalance, lastInterest, lastPayment, covered>>

\* forms whose schedules are short, and forms prepaid in full
InitExport ==
    /\ ver \in Revisions
    /\ limit = Pow(2, MantBits)
    /\ freq \in FrequenciesSelected
    /\ remaining \in {Fl(x) : x \in {500, 2000}}
    /\ oneTime \in {Fl(x) : x \in {0, 500}}
    /\ emi \in {Fl(x) : x \in {500, 900}}
    /\ prepayment = 0
    /\ annualRate \in {0, 12}
    /\ Fresh

NextExport == Setup \/ Iterate \/ Return \/ ExportCSV

ExportSpec == InitExport /\ [][NextExport]_vars

----------------------------------------------------------------------------
(* The quantities the properties speak of *)

\* the starting balance, max(0, remainingPrincipal - oneTimePrepayment)
initialBalance == Max(0, FSub(remaining, oneTime))

\* the per-period payment: regular payment plus recurring prepayment
perPeriodPayment == FAdd(paymentBase, prepaymentPerPeriod)

\* the interest of period 1
firstInterest == FlMulDiv(initialBalance, annualRate, 100 * periodsPerYear)

\* the emitted endingBalance before record k (the starting balance for k = 1)
BalanceBefore(k) == IF k = 1 THEN initialBalance ELSE data[k - 1].balance

\* the exact sum of the emitted interestAccrued of records 1..n
RECURSIVE SumEmitted(_, _)
SumEmitted(d, n) == IF n = 0 THEN 0 ELSE SumEmitted(d, n - 1) + d[n].interest

\* how far the last record's cumulativeInterest is from that sum
Drift == Abs(data[Len(data)].cumInterest - SumEmitted(data, Len(data)))

\* totalInterest of the schedule d
TotalInterestOf(d) == ToFixed2(SumInterest(d, Len(d)))

\* inputs b are inputs a with a larger recurring or one-time prepayment,
\* everything else the same and nothing negative
Raised(a, b) ==
    /\ a.remaining = b.remaining /\ a.emi = b.emi
    /\ a.annualRate = b.annualRate /\ a.freq = b.freq
    /\ \/ a.oneTime = b.oneTime /\ a.prepayment < b.prepayment
       \/ a.oneTime < b.oneTime /\ a.prepayment = b.prepayment
    /\ a.remaining >= 0 /\ a.emi >= 0 /\ a.annualRate >= 0
    /\ a.oneTime >= 0 /\ a.prepayment >= 0

\* the text t cut at every token sep
RECURSIVE Split(_, _)
Split(t, sep) ==
    IF \A k \in 1..Len(t) : t[k] # sep THEN <<t>>
    ELSE LET k == CHOOSE j \in 1..Len(t) :
                      t[j] = sep /\ \A h \in 1..(j - 1) : t[h] # sep
         IN  <<SubSeq(t, 1, k - 1)>> \o Split(SubSeq(t, k + 1, Len(t)), sep)

\* the value of one digit token (10 for any other token)
DigitValue(c) ==
    IF \E d \in 0..9 : Digit(d) = c THEN CHOOSE d \in 0..9 : Digit(d) = c
    ELSE 10

\* the natural number a text of digits denotes
RECURSIVE NatValue(_)
NatValue(t) ==
    IF Len(t) = 0 THEN 0
    ELSE 10 * NatValue(SubSeq(t, 1, Len(t) - 1)) + DigitValue(t[Len(t)])

\* a text of digits and nothing else
IsDigits(t) == Len(t) >= 1 /\ \A k \in 1..Len(t) : DigitValue(t[k]) < 10

\* the amount a decimal numeral denotes, as a reader of the file parses it
AmountValue(t) ==
    LET negative == Len(t) >= 1 /\ t[1] = "-"
        u == IF negative THEN Tail(t) ELSE t
        parts == Split(u, ".")
        frac == IF Len(parts) = 2 THEN parts[2] ELSE <<>>
    IN  (IF negative THEN 0 - 1 ELSE 1)
          * (NatValue(parts[1]) * Amount(1)
               + NatValue(frac) * Pow(10, FracDigits - Len(frac)))

\* a decimal numeral with no more fraction digits than an amount holds
IsNumeral(t) ==
    LET u == IF Len(t) >= 1 /\ t[1] = "-" THEN Tail(t) ELSE t
        parts == Split(u, ".")
    IN  /\ Len(parts) \in {1, 2}
        /\ IsDigits(parts[1])
        /\ Len(parts) = 2 => IsDigits(parts[2]) /\ Len(parts[2]) <= FracDigits

\* the lines of the exported file, each cut into its cells
CsvCells ==
    LET lines == Split(csv, "\n")
    IN  [k \in 1..Len(lines) |-> Split(lines[k], ",")]

\* the least whole number of payments p that cover the amount a
PaymentsNeeded(a, p) == (a + p - 1) \div p

----------------------------------------------------------------------------
(* handleNumericInput *)

\* the longest start of the text t that is a decimal numeral (0: none)
NumeralLength(t) ==
    IF \E k \in 1..Len(t) : IsNumeral(SubSeq(t, 1, k))
    THEN CHOOSE k \in 1..Len(t) :
             /\ IsNumeral(SubSeq(t, 1, k))
             /\ \A j \in (k + 1)..Len(t) : ~IsNumeral(SubSeq(t, 1, j))
    ELSE 0

\* isNaN(parseFloat(value))
IsNaN(t) == NumeralLength(t) = 0

\* parseFloat(value), when it is a number
ParseFloat(t) == Fl(AmountValue(SubSeq(t, 1, NumeralLength(t))))

\* Math.min(max, parsed), max = {} standing for Infinity
AtMost(max, parsed) ==
    IF max = {} THEN parsed ELSE Min(CHOOSE m \in max : TRUE, parsed)

\* what handleNumericInput passes to the setter: nothing, a number or a text
\* rev 3: if (value === '') { setter(''); return; }
\* rev 4: if (value === '') { setter(0); return; }
\* both: if (!isNaN(parsed)) setter(Math.max(min, Math.min(max, parsed)))
handleNumericInput(v, value, min, max) ==
    IF value = <<>>
    THEN IF v = 3 THEN [kind |-> "text", value |-> 0]
                  ELSE [kind |-> "number", value |-> 0]
    ELSE IF IsNaN(value) THEN [kind |-> "none", value |-> 0]
    ELSE [kind |-> "number",
          value |-> Max(min, AtMost(max, ParseFloat(value)))]

\* the value the field holds after the call, as arithmetic reads it: the
\* empty text counts as 0
Stored(before, passed) ==
    IF passed.kind = "none" THEN before ELSE passed.value

\* the texts typed: nothing, texts that are no number, and numerals
TypedAmounts == {0 - 800, 0, 500, 2500}
TypedTexts ==
    {<<>>, <<"a", "b", "c">>, <<"-">>, <<"1", "2", "a">>}
        \cup {NumberText(x) : x \in TypedAmounts}

\* handleNumericInput(e.target.value, setRemaining)
TypeRemaining ==
    /\ pc = "done"
    /\ ver \in {3, 4}
    /\ \E t \in TypedTexts :
          LET passed == handleNumericInput(ver, t, 0, {})
          IN  /\ remaining' = Stored(remaining, passed)
              /\ handled' = [field |-> "remaining", text |-> t, min |-> 0,
                             max |-> {}, before |-> remaining,
                             kind |-> passed.kind, value |-> passed.value]
    /\ UNCHANGED <<oneTime, emi, annualRate, prepayment, freq, tenure>>
    /\ Render

\* handleNumericInput(e.target.value, setOneTime, 0, remaining)
TypeOneTime ==
    /\ pc = "done"
    /\ ver \in {3, 4}
    /\ \E t \in TypedTexts :
          LET passed == handleNumericInput(ver, t, 0, {remaining})
          IN  /\ oneTime' = Stored(oneTime, passed)
              /\ handled' = [field |-> "oneTime", text |-> t, min |-> 0,
                             max |-> {remaining}, before |-> oneTime,
                             kind |-> passed.kind, value |-> passed.value]
    /\ UNCHANGED <<remaining, emi, annualRate, prepayment, freq, tenure>>
    /\ Render

InitTyping ==
    /\ ver \in {3, 4}
    /\ limit = Pow(2, MantBits)
    /\ freq = "monthly"
    /\ remaining = 2000
    /\ oneTime = 0
    /\ emi = 900
    /\ prepayment = 0
    /\ annualRate = 12
    /\ Fresh

NextTyping == Setup \/ Iterate \/ Return \/ TypeRemaining \/ TypeOneTime

\* texts typed into the two fields, in any order
TypingSpec == InitTyping /\ [][NextTyping]_vars

\* the value of the field of the last call
FieldHandled == IF handled.field = "remaining" THEN remaining ELSE oneTime

----------------------------------------------------------------------------
(* useLocalStorage('darkMode', false) and the effects that use it *)

\* JSON.stringify(value) of a boolean
Stringify(value) == IF value THEN "true" ELSE "false"

\* JSON.parse(text) returns a value
Parses(text) == text \in {"true", "false"}

\* JSON.parse(text), when it returns
Parse(text) == text = "true"

\* the second argument of useLocalStorage('darkMode', false)
defaultValue == FALSE

\* the stored value ignored
InitialValue_Default(e, f) == defaultValue

\* try { const stored = localStorage.getItem(key);
\*       return stored !== null ? JSON.parse(stored) : defaultValue;
\* } catch { return defaultValue; }
InitialValue(e, f) ==
    IF f = "all" THEN defaultValue
    ELSE IF e = <<>> THEN defaultValue
    ELSE IF Parses(e[1]) THEN Parse(e[1])
    ELSE defaultValue

\* the entries found at a load: none, a stored boolean, a text that is
\* not JSON, the empty text
Entries == {<<>>, <<"true">>, <<"false">>, <<"{">>, <<"">>}

\* !localStorage.getItem('darkMode') is false: getItem returned a text
\* that is not empty
Truthy(e) == e # <<>> /\ e[1] # ""

\* the page was loaded and rendered; no effect has run
Loaded ==
    /\ darkMode = InitialValue(entry, failing)
    /\ listening = FALSE
    /\ load = "persist"
    /\ sync = "pending"
    /\ firstLoad = (entry = <<>>)

InitStorage ==
    /\ ver = 4
    /\ limit = Pow(2, MantBits)
    /\ freq = "monthly"
    /\ remaining = 2000 /\ oneTime = 0 /\ emi = 900 /\ prepayment = 0
    /\ annualRate = 12
    /\ BeforeSchedule
    /\ entry \in Entries
    /\ failing \in {"none", "write"}
    /\ prefersDark \in BOOLEAN
    /\ Loaded

\* the state of the calculator, which the colour scheme does not touch
calculator ==
    <<inputs, emiCalc, kept, csv, tenure, handled, pc, balance, period,
      cumInterest, data, paymentBase, prepaymentPerPeriod, warned,
      prevBalance, lastInterest, lastPayment, covered>>

\* try { localStorage.setItem(key, JSON.stringify(value)); } catch {}
Write ==
    IF failing = "none"
    THEN entry' = <<Stringify(darkMode)>> /\ sync' = "written"
    ELSE entry' = entry /\ sync' = "failed"

\* on mount the effect of useLocalStorage('darkMode', false) runs before the
\* effects declared after it
PersistOnMount ==
    /\ load = "persist"
    /\ Write
    /\ load' = "detect"
    /\ UNCHANGED <<darkMode, prefersDark, listening, failing, firstLoad>>
    /\ UNCHANGED calculator

\* if (!localStorage.getItem('darkMode')) { setDarkMode(mq.matches);
\*    mq.addEventListener('change', e => setDarkMode(e.matches)); }
DetectOnMount ==
    /\ load = "detect"
    /\ IF failing = "all"
       THEN /\ load' = "crashed"
            /\ UNCHANGED <<darkMode, listening, sync>>
       ELSE IF ~Truthy(entry)
       THEN /\ darkMode' = prefersDark
            /\ listening' = TRUE
            /\ sync' = IF darkMode' # darkMode THEN "pending" ELSE sync
            /\ load' = "idle"
       ELSE /\ load' = "idle"
            /\ UNCHANGED <<darkMode, listening, sync>>
    /\ UNCHANGED <<entry, prefersDark, failing, firstLoad>>
    /\ UNCHANGED calculator

\* the effect of useLocalStorage after a render with a new value
PersistOnChange ==
    /\ load = "idle"
    /\ sync = "pending"
    /\ Write
    /\ UNCHANGED <<darkMode, prefersDark, listening, load, failing, firstLoad>>
    /\ UNCHANGED calculator

\* onClick={() => setDarkMode(!darkMode)}
ToggleDarkMode ==
    /\ load = "idle"
    /\ sync # "pending"
    /\ darkMode' = ~darkMode
    /\ sync' = "pending"
    /\ UNCHANGED <<entry, prefersDark, listening, load, failing, firstLoad>>
    /\ UNCHANGED calculator

\* the system preference changes; e => setDarkMode(e.matches) when listening
MediaChange ==
    /\ load = "idle"
    /\ sync # "pending"
    /\ prefersDark' = ~prefersDark
    /\ darkMode' = IF listening THEN prefersDark' ELSE darkMode
    /\ sync' = IF darkMode' # darkMode THEN "pending" ELSE sync
    /\ UNCHANGED <<entry, listening, load, failing, firstLoad>>
    /\ UNCHANGED calculator

\* the page is loaded again
Reload ==
    /\ load \in {"idle", "crashed"}
    /\ sync # "pending"
    /\ darkMode' = InitialValue(entry, failing)
    /\ listening' = FALSE
    /\ load' = "persist"
    /\ sync' = "pending"
    /\ firstLoad' = (entry = <<>>)
    /\ UNCHANGED <<entry, prefersDark, failing>>
    /\ UNCHANGED calculator

\* the storage starts or stops throwing
StorageChange ==
    /\ load = "idle"
    /\ sync # "pending"
    /\ \E f \in {"none", "write", "all"} : failing' = f
    /\ UNCHANGED <<darkMode, entry, prefersDark, listening, load, sync,
                   firstLoad>>
    /\ UNCHANGED calculator

NextStorage ==
    \/ PersistOnMount \/ DetectOnMount \/ PersistOnChange
    \/ ToggleDarkMode \/ MediaChange \/ Reload \/ StorageChange

StorageSpec == InitStorage /\ [][NextStorage]_vars

----------------------------------------------------------------------------
(* Properties *)

\* C1: when oneTime >= remaining the starting balance is clamped to 0, the
\* schedule is empty, payoffPeriods is 0 and totalInterest is 0.
C1_EmptyWhenPrepaid ==
    (pc # "start" /\ oneTime >= remaining) =>
        /\ balance = 0
        /\ data = <<>>
        /\ payoffPeriods = 0
        /\ totalInterest = 0

\* a finished computation whose one-time prepayment exceeds the principal
C1_Witness == pc = "done" /\ oneTime > remaining /\ remaining > 0 /\ data = <<>>

\* C2: the loop terminates on every input, zero and negative ones included:
\* each pass either returns or advances period, period never exceeds
\* periodCap, and the schedule never holds more than periodCap records.
C2_Terminates ==
    [][ /\ period' <= periodCap
        /\ Len(data') <= periodCap
        /\ (pc = "loop" => (pc' = "done" \/ period' = period + 1)) ]_vars

\* a computation that the cutoff stopped, on a payment that is not positive
C2_Witness ==
    pc = "done" /\ emi <= 0 /\ balance > 0 /\ Len(data) = periodCap

\* C3 as stated: a payment below the first period's interest gives exactly
\* periodCap records, the last endingBalance above the starting balance.
C3_Original ==
    (pc = "done" /\ initialBalance > 0 /\ perPeriodPayment < firstInterest) =>
        /\ Len(data) = periodCap
        /\ data[periodCap].balance > initialBalance

\* C3 amended: a payment below the first period's interest gives exactly
\* periodCap records, and the last endingBalance is not below the starting
\* balance rounded to 2 decimals.
C3_CutoffNoPayoff ==
    (pc = "done" /\ initialBalance > 0 /\ perPeriodPayment < firstInterest) =>
        /\ Len(data) = periodCap
        /\ data[periodCap].balance >= ToFixed2(initialBalance)

\* an underpaid loan that ran to the cutoff and whose balance grew
C3_Witness ==
    /\ pc = "done" /\ initialBalance > 0 /\ perPeriodPayment < firstInterest
    /\ Len(data) = periodCap
    /\ data[periodCap].balance > ToFixed2(initialBalance)

\* C4 as stated: when the payment exceeds the interest at every step, each
\* emitted endingBalance is strictly below the one before it (the first
\* below the starting balance) until it reaches 0.
C4_Original ==
    (pc = "done" /\ covered) =>
        \A k \in 1..Len(data) :
            BalanceBefore(k) > 0 => data[k].balance < BalanceBefore(k)

\* C4 amended: when the payment exceeds the interest at every step, the
\* emitted endingBalance never increases from a record to the next, and the
\* first is not above the starting balance rounded to 2 decimals.  (Every
\* prefix of a schedule is a state, so the last record stands for each.)
C4_NonIncreasing ==
    (covered /\ Len(data) >= 1) =>
        data[Len(data)].balance <= ToFixed2(BalanceBefore(Len(data)))

\* a covered schedule in which two successive records show the same balance
C4_Witness ==
    /\ pc = "done" /\ covered
    /\ \E k \in 2..Len(data) :
          data[k - 1].balance > 0 /\ data[k].balance = data[k - 1].balance

\* C5 as stated: the emitted cumulativeInterest of record k is within 0.01 of
\* the sum of the emitted interestAccrued of records 1..k.
C5_Original == Len(data) >= 1 => Drift <= Cent

\* C5 amended: while the running total is held at least four times finer
\* than a cent, the emitted cumulativeInterest of record k is within 0.01 * k
\* of the sum of the emitted interestAccrued of records 1..k.
C5_DriftPerRecord ==
    (Len(data) >= 1 /\ 4 * Spacing(Abs(cumInterest)) <= Cent) =>
        Drift <= Len(data) * Cent

\* a finely held running total that has drifted by more than a cent
C5_Witness ==
    /\ Len(data) >= 3 /\ 4 * Spacing(Abs(cumInterest)) <= Cent
    /\ Drift > Cent

\* C6: in every period the payment applied is min(per-period payment,
\* balance + interest), interest plus the drop in balance does not exceed
\* the per-period payment, the balance after the step is not negative, and
\* the emitted endingBalance is not negative.
C6_Original ==
    period >= 1 =>
        /\ lastPayment = Min(perPeriodPayment, FAdd(prevBalance, lastInterest))
        /\ lastInterest + (prevBalance - balance) <= perPeriodPayment
        /\ balance >= 0
        /\ data[Len(data)].balance >= 0

\* C7: balance_0 = max(0, remaining - oneTime), and each period has
\* interest = balance * annualRate / 100 / periodsPerYear,
\* principal = min(regular + extra, balance + interest) - interest,
\* new balance = balance - principal.
C7_Recurrence ==
    [][ /\ pc = "start" => balance' = Max(0, FSub(remaining, oneTime))
        /\ period' = period + 1 =>
              LET i == FlMulDiv(balance, annualRate, 100 * periodsPerYear)
                  pay == Min(FAdd(paymentBase, prepaymentPerPeriod),
                             FAdd(balance, i))
              IN  /\ lastInterest' = i
                  /\ balance' = FSub(balance, FSub(pay, i)) ]_vars

\* a schedule of several periods whose last payment was clamped
C7_Witness ==
    pc = "done" /\ period >= 2 /\ lastPayment < perPeriodPayment

\* C8: one normalization for both amounts: the same entered amount gives the
\* same per-period amount, whether entered as EMI or as recurring prepayment.
C8_SameFactor ==
    (pc # "start" /\ emi = prepayment) => paymentBase = prepaymentPerPeriod

\* C9: the per-period regular payment times periodsPerYear is 12 * emi, to
\* within the rounding of the division.
C9_AnnualPayment ==
    pc # "start" =>
        Abs(paymentBase * periodsPerYear - 12 * emi)
            <= periodsPerYear * Spacing(12 * Abs(emi))

\* C10: the warning is raised exactly when the per-period payment, regular
\* plus recurring, is below the first period's interest.
C10_WarningExact ==
    pc # "start" => (warned <=> perPeriodPayment < firstInterest)

\* C11: with 100000 remaining, no one-time prepayment, a regular payment of
\* 1000 a month, 6 percent a year and no recurring prepayment, the first
\* record has period 1, interest 500.00 and balance 99500.00.
C11_Scenario ==
    Len(data) >= 1 =>
        /\ data[1].period = 1
        /\ data[1].interest = Amount(500)
        /\ data[1].balance = Amount(99500)

\* the scenario's schedule, run to its payoff
C11_Witness ==
    /\ pc = "done" /\ Len(data) >= 2 /\ balance <= 0
    /\ remaining = Amount(100000) /\ emi = Amount(1000) /\ annualRate = 6
    /\ freq = "monthly" /\ oneTime = 0 /\ prepayment = 0

\* C13: in every returned schedule the k-th record has period k.
C13_Sequential ==
    pc = "done" => \A k \in 1..Len(data) : data[k].period = k

\* a returned schedule of several records
C13_Witness == pc = "done" /\ Len(data) >= 3 /\ data[3].period = 3

\* C14 as stated: in a returned schedule a record whose emitted
\* endingBalance is 0 can only be the last one.
C14_Original ==
    pc = "done" => \A k \in 1..Len(data) : data[k].balance = 0 => k = Len(data)

\* C14 amended: no record is emitted once the internal balance has reached
\* zero or less: every record was computed from a positive balance, and when
\* the loop goes on after a record the balance is still positive; that
\* record's emitted endingBalance is 0 only if the balance is below half a
\* cent.
C14_NoRecordAfterPayoff ==
    /\ Len(data) >= 1 => prevBalance > 0
    /\ (pc = "loop" /\ Len(data) >= 1) =>
          /\ balance > 0
          /\ data[Len(data)].balance = 0 => 2 * balance < Cent

\* the loop goes on after a record that shows a balance of 0
C14_Witness ==
    /\ pc = "loop" /\ period < periodCap /\ Len(data) >= 1
    /\ data[Len(data)].balance = 0 /\ balance > 0

\* C15 as stated: when the loop stops at the cutoff with the internal
\* balance above zero, the last record's emitted endingBalance is above 0.
C15_Original ==
    (pc = "done" /\ period = periodCap /\ balance > 0) =>
        data[periodCap].balance > 0

\* C15 amended: when the loop stops at the cutoff with the internal balance
\* above zero, the last record's emitted endingBalance is not negative, and
\* it is above 0 whenever that balance is at least half a cent.
C15_CutoffVisible ==
    (pc = "done" /\ period = periodCap /\ balance > 0) =>
        /\ data[periodCap].balance >= 0
        /\ 2 * balance >= Cent => data[periodCap].balance > 0

\* a loan cut off with less than half a cent left and shown as paid
C15_Witness ==
    /\ pc = "done" /\ period = periodCap /\ balance > 0
    /\ 2 * balance < Cent /\ data[periodCap].balance = 0

\* C18: rounding happens only when a record is emitted: each period's
\* interest is computed from the unrounded balance the period before left,
\* the balance carried on is unrounded, and the running total adds the
\* unrounded interest.
C18_RoundOnlyAtEmission ==
    [][ period' = period + 1 =>
          /\ lastInterest' = FlMulDiv(balance, annualRate, 100 * periodsPerYear)
          /\ balance' = FSub(balance, FSub(lastPayment', lastInterest'))
          /\ cumInterest' = FAdd(cumInterest, lastInterest') ]_vars

\* the loop goes on from a balance and a running total that both differ
\* from what the last record shows
C18_Witness ==
    /\ pc = "loop" /\ Len(data) >= 2
    /\ balance # data[Len(data)].balance
    /\ cumInterest # data[Len(data)].cumInterest
    /\ lastInterest # data[Len(data)].interest

\* C19: payoffPeriods is the number of records, and totalInterest is the sum
\* of the interest field over all records (0 for the empty schedule).
C19_Summary ==
    pc = "done" =>
        /\ payoffPeriods = Len(data)
        /\ totalInterest = SumEmitted(data, Len(data))

\* what C12 says of a call, but for the example's value: 0 for a term of 0
\* months; principal / n to the cent for a zero rate; otherwise the annuity
\* payment E to the cent, E * (f - 1) = P * m * f with f = (1 + m)^n
EmiFormula ==
    LET P == emiCalc.principal
        n == emiCalc.years * 12
        f == Compound(emiCalc.rate, n)
        E == emiCalc.value
    IN  /\ n = 0 => E = 0
        /\ (n # 0 /\ emiCalc.rate = 0) =>
              (2 * n * E <= 2 * P + n /\ 2 * P - n <= 2 * n * E)
        /\ (n # 0 /\ emiCalc.rate # 0) =>
              Abs(MulDiv(E * Fine, f - One, One)
                    - MulDiv(MonthlyInterest(P, emiCalc.rate), f, One))
                  <= MulDiv(Fine, f - One, One) + 2

\* the call of the example: 1200000 at 9 percent over 20 years
EmiExample ==
    emiCalc.principal = 120000000 /\ emiCalc.rate = 9 /\ emiCalc.years = 20

\* C12 as stated: the three cases, and calculateEmi(1200000, 9, 20) within
\* a cent of 10796.97.
C12_Original ==
    EmiFormula /\ (EmiExample => Abs(emiCalc.value - 1079697) <= 1)

\* C12 amended: the three cases, and calculateEmi(1200000, 9, 20) within a
\* cent of 10796.71.
C12_Annuity ==
    EmiFormula /\ (EmiExample => Abs(emiCalc.value - 1079671) <= 1)

\* the example has been computed
C12_Witness == EmiExample /\ emiCalc.value > 0


\* C16: whatever fields were edited, in whatever order, the schedule handed
\* to the chart, the table, the summary and the export is the schedule
\* computed from scratch from the values the fields hold now
C16_NoStaleSchedule == pc = "done" => data = ScheduleData

\* every field was edited away from the stored form and the schedule has
\* several records
C16_Witness ==
    /\ pc = "done" /\ Len(data) >= 2
    /\ remaining = 2000 /\ oneTime = 800 /\ emi = 500
    /\ prepayment = 300 /\ annualRate = 0 /\ freq = "biweekly"

\* C17: a schedule computed earlier and a schedule computed now from the same
\* inputs are the same sequence of records, whatever was computed in between
C17_Deterministic ==
    (pc = "done" /\ Len(kept) > 0 /\ kept[1] = Input) => kept[2] = data

\* the inputs of a kept schedule were left, other schedules were computed,
\* and the inputs were restored
C17_Witness ==
    /\ pc = "done" /\ Len(kept) > 0 /\ kept[1] = Input
    /\ kept[3] /\ Len(data) >= 2

\* C20: the stored one-time prepayment is not negative and not above the
\* stored remaining principal
C20_OneTimeWithinRemaining == oneTime >= 0 /\ oneTime <= remaining


\* C22: at every step the unrounded balance is the starting balance plus the
\* interest charged so far minus the payments applied so far, and at payoff
\* the payments sum to the starting balance plus the total interest.  The
\* sums telescope: the statement holds at every step exactly when each step
\* changes the balance by that step's interest minus its payment, and it
\* holds at payoff exactly when the balance left is 0.
C22_Conservation ==
    period >= 1 =>
        /\ balance = prevBalance + lastInterest - lastPayment
        /\ (pc = "done" /\ lastPayment < perPeriodPayment) => balance = 0

\* C23: a non-empty schedule of fewer than periodCap records ends with a
\* record whose endingBalance is 0.
C23_EarlyStopIsPayoff ==
    (pc = "done" /\ Len(data) >= 1 /\ Len(data) < periodCap) =>
        data[Len(data)].balance = 0

\* a schedule stopped early whose internal balance ended below zero
C23_Witness ==
    /\ pc = "done" /\ Len(data) >= 1 /\ Len(data) < periodCap
    /\ balance < 0 /\ data[Len(data)].balance = 0

\* C25: at rate 0 with a positive per-period payment p every record has
\* interest 0 and cumInterest 0, and the schedule has
\* min(periodCap, ceil(starting balance / p)) records.
C25_ZeroRate ==
    (pc = "done" /\ annualRate = 0 /\ perPeriodPayment > 0) =>
        /\ \A k \in 1..Len(data) :
              data[k].interest = 0 /\ data[k].cumInterest = 0
        /\ Len(data) = Min(periodCap,
                           PaymentsNeeded(initialBalance, perPeriodPayment))

\* C24: of two schedules whose inputs differ only in a larger recurring or
\* one-time prepayment, the one with the larger prepayment has no more
\* records and no larger totalInterest.
C24_PrepaymentNeverHurts ==
    (pc = "done" /\ Len(kept) > 0) =>
        /\ Raised(kept[1], Input) =>
              /\ Len(data) <= Len(kept[2])
              /\ TotalInterestOf(data) <= TotalInterestOf(kept[2])
        /\ Raised(Input, kept[1]) =>
              /\ Len(kept[2]) <= Len(data)
              /\ TotalInterestOf(kept[2]) <= TotalInterestOf(data)

\* C21: the exported text is the header row followed by exactly one row per
\* record, in schedule order, and the four cells of a row read back as the
\* record's period, interest, cumInterest and balance; an empty schedule
\* exports the header only.
C21_Export ==
    csv # <<>> =>
        /\ Len(CsvCells) = 1 + Len(data)
        /\ CsvCells[1] = header
        /\ \A k \in 1..Len(data) :
              LET cells == CsvCells[k + 1]
              IN  /\ Len(cells) = 4
                  /\ IsDigits(cells[1]) /\ NatValue(cells[1]) = data[k].period
                  /\ \A c \in 2..4 : IsNumeral(cells[c])
                  /\ AmountValue(cells[2]) = data[k].interest
                  /\ AmountValue(cells[3]) = data[k].cumInterest
                  /\ AmountValue(cells[4]) = data[k].balance
        /\ data = <<>> => csv = Join(header, ",")

\* an export of several records, one of them with cents in its interest
C21_Witness ==
    /\ csv # <<>> /\ Len(data) >= 3
    /\ \E k \in 1..Len(data) :
          data[k].interest % Amount(1) # 0 /\ data[k].interest # data[k].cumInterest

\* C26: with monthly frequency and no recurring prepayment, after the tenure
\* slider was moved to Y years (0 < 12 * Y < periodCap) the EMI is
\* calculateEmi(max(0, remaining - oneTime), annualRate, Y) and the schedule
\* of a loan with something left to pay has 12 * Y records, or 12 * Y + 1.
C26_TenurePayoff ==
    (/\ pc = "done" /\ ver = 3 /\ freq = "monthly" /\ prepayment = 0
     /\ tenure > 0 /\ 12 * tenure < periodCap /\ initialBalance > 0) =>
        /\ emi = SliderEmi(remaining, oneTime, annualRate, tenure)
        /\ Len(data) \in {12 * tenure, 12 * tenure + 1}

\* C28: whatever is clicked and typed on the recurring-prepayment control,
\* the stored prepayment is never negative, and every change of it is a minus
\* click's (2000 less, not below 0), a plus click's (2000 more, not above the
\* remaining principal) or that of a typed number clamped into
\* [0, remaining].
C28_PrepaymentControl ==
    [][ /\ prepayment >= 0 /\ prepayment' >= 0
        /\ prepayment' # prepayment =>
              \/ prepayment' = Max(0, FSub(prepayment, PrepaymentStep))
              \/ prepayment' = Min(remaining, FAdd(prepayment, PrepaymentStep))
              \/ \E x \in PrepaymentTyped :
                    prepayment' = Max(0, Min(remaining, Fl(x))) ]_vars

\* the plus button stopped at the remaining principal, which is not a whole
\* number of clicks
C28_Witness ==
    /\ pc = "done" /\ prepayment = remaining
    /\ remaining % PrepaymentStep # 0 /\ Len(data) >= 1

\* C29: handleNumericInput leaves the state as it was when the text is no
\* number, stores the number 0 when the text is empty, and otherwise stores
\* the parsed number clamped into [min, max]; what it stores is a number.
C29_HandleNumericInput ==
    handled.field # "none" =>
        /\ (handled.text # <<>> /\ IsNaN(handled.text)) =>
              handled.kind = "none" /\ FieldHandled = handled.before
        /\ handled.text = <<>> =>
              handled.kind = "number" /\ handled.value = 0
        /\ (handled.text # <<>> /\ ~IsNaN(handled.text)) =>
              /\ handled.kind = "number"
              /\ handled.value =
                    Max(handled.min, AtMost(handled.max, ParseFloat(handled.text)))
              /\ FieldHandled = handled.value
        /\ handled.kind # "none" => handled.kind = "number"

\* C27: on a load that found no darkMode entry, the detection effect runs
\* while there is still no entry, and once the effects have run the app
\* listens to the system colour scheme, having adopted it.
C27_SystemPreference ==
    firstLoad =>
        /\ load = "detect" => entry = <<>>
        /\ load = "idle" => listening

\* C30: useLocalStorage starts from the stored value when there is one and
\* it parses, and from the default when there is none or reading or parsing
\* fails; once the effect has written, the entry is the JSON of the current
\* value, so that a reload restores it; a failing write changes neither the
\* value nor the entry.
C30_UseLocalStorage ==
    /\ [](load = "persist" =>
            darkMode = IF failing # "all" /\ entry # <<>> /\ Parses(entry[1])
                       THEN Parse(entry[1]) ELSE defaultValue)
    /\ [](sync = "written" => entry = <<Stringify(darkMode)>>)
    /\ [][ /\ (sync = "written" /\ load = "idle" /\ load' = "persist"
                 /\ failing # "all") => darkMode' = darkMode
           /\ sync' = "failed" => darkMode' = darkMode /\ entry' = entry ]_vars

\* a load that found no entry, after which the value was changed and the
\* effect wrote it
C30_Witness ==
    firstLoad /\ load = "idle" /\ sync = "written" /\ darkMode
====
